---- MODULE Spec2Model ----
(***************************************************************************)
(* The MVC examples of the repository as state machines.                   *)
(*                                                                         *)
(*  - useInventoryModel (ejemplos/Inventory/InventoryManagement.tsx): a    *)
(*    React hook holding the products collection, with the asynchronous    *)
(*    operations fetchProducts, addProduct and updateStock.  A call        *)
(*    captures the products value of the render it was issued from and     *)
(*    writes the collection when the promise of the api settles.           *)
(*  - getBookController (ejemplos/libreria, singleton version): a module   *)
(*    level slot holding the one BookController.                           *)
(*  - BookControllerProvider / useBookController (ejemplos/libreria,       *)
(*    Context API version): a controller provided through a React context. *)
(*  - the users example (ejemplos/users/users.md and its later version):   *)
(*    a list filled by a mount effect, a form whose submission runs a      *)
(*    react-query mutation.                                                *)
(*  - the to-do example with an api (ejemplos/todos/todos con api.md):     *)
(*    TaskModel over fetch, TaskController with its effect and handlers.   *)
(*  - the in-memory to-do example in React (ejemplos/todos/ejemplo en      *)
(*    REACT.md): TaskModel with one array, TaskController holding it.      *)
(*  - the console examples: the to-do of ejemplos/todos/ejemplo en         *)
(*    Typescript.md (TaskModel, TaskController, simulateUserInput) and the *)
(*    counter of ejemplos/counter (Count, Controller, View).               *)
(***************************************************************************)
EXTENDS Integers, Sequences, FiniteSets, TLC

VARIABLES
    products,    \* useInventoryModel: the products state
    loading,     \* useInventoryModel: the loading state
    error,       \* useInventoryModel: the error state (NULL or a message)
    pending,     \* calls of the hook whose api promise has not settled yet
    now,         \* the value Date.now() returns
    calls,       \* number of calls of the hook issued so far
    last,        \* the call that completed last, as its caller observes it
    controllers, \* heap: the BookController objects, [model |-> BookModel reference]
    models,      \* heap: the BookModel objects, [books |-> array reference]
    arrays,      \* heap: the arrays of books
    instance,    \* BookControllerSingleton: the module's instance slot
    held,        \* singleton version: the controller each mounted component holds
    mainBooks,   \* singleton version: the books state of Main, an array reference
    detailId,    \* singleton version: the id parameter of the route of Detail
    detailBook,  \* singleton version: the book state of Detail, <<>> being null
    returned,    \* the references getBookController has returned so far
    provided,    \* Context version: the value each mounted provider passes down
    built,       \* Context version: the controllers each provider has constructed
    ctxHeld,     \* Context version: the controller each mounted consumer holds
    ctxReturned, \* the references useBookController has returned in each scope
    version,     \* users example: which version of the example is mounted
    remoteUsers, \* users example: the users the remote api holds
    users,       \* users example: the users state of UserList / UserView
    isLoading,   \* users example: the isLoading state of UserList
    usersFetch,  \* users example: the getAllUsers call of the mount effect
    selectedUser,\* users example: the selectedUser state, <<>> being null
    formData,    \* users example: the values the mounted UserForm holds, or <<>>
    mutation,    \* users example: the mutation of UserForm that ran last
    invalidations, \* users example: calls of invalidateQueries for 'users'
    submits,     \* users example: submissions of the form so far
    userEvent,   \* users example: the handler or callback that ran last
    tasks,       \* to-do with api: the entries of the tasks state of TaskController
    taskShape,   \* to-do with api: "array", or "object" when tasks is no array
    crashed,     \* to-do with api: a render of the component has thrown
    remoteTasks, \* to-do with api: the tasks the remote api holds
    taskPending, \* to-do with api: calls of the model whose fetch has not settled
    taskCalls,   \* to-do with api: addTask / toggleTask calls issued so far
    renderPending, \* to-do with api: a state change awaits its render
    effectPending, \* to-do with api: the effect of the last render has not run yet
    model,       \* to-do with api: the TaskModel the last render created, 0 none
    taskLast,    \* to-do with api: the call that completed last
    todoTasks,   \* in-memory to-do: the array TaskModel.tasks, mutated in place
    todoNextId,  \* in-memory to-do: TaskModel.nextId
    todoState,   \* in-memory to-do: the tasks state of TaskController, a reference
    todoShown,   \* in-memory to-do: the tasks TaskView rendered last
    conTasks,    \* console to-do: the array TaskModel.tasks
    conNextId,   \* console to-do: TaskModel.nextId
    conShown,    \* console to-do: <<tasks>> last passed to TaskView.render, or <<>>
    conRenders,  \* console to-do: calls of TaskView.render so far
    conOps,      \* console to-do: calls of TaskController.addTask / toggleTask so far
    conInputs,   \* console to-do: calls of simulateUserInput so far
    scriptPos,   \* console to-do: how far the inputs so far follow the script, or -1
    conPre,      \* console to-do: the model before the last input
    conLast,     \* console to-do: the last input
    count,       \* counter: Count.count
    logged,      \* counter: <<val>> last passed to View.render, or <<>>
    counterRenders, \* counter: calls of View.render so far
    counterOps,  \* counter: calls of Controller.get / increment / decrement so far
    counterLast, \* counter: the operation of the Controller called last
    outHeld,     \* context: per component outside any provider, <<controller>> or <<>>
    ctxRoute,    \* context: the id parameter of the route of Detail, a string
    ctxEffect,   \* context: the components whose effect is to run
    ctxBooks,    \* context: the books state of each Main, an array reference, 0 its own []
    ctxBook      \* context: the book state of each Detail, <<book>> or <<>> for null

invVars == <<products, loading, error, pending, now, calls, last>>

heapVars == <<controllers, models, arrays>>

singletonVars == <<instance, held, mainBooks, detailId, detailBook, returned>>

contextVars == <<provided, built, ctxHeld, ctxReturned, outHeld, ctxRoute,
                 ctxEffect, ctxBooks, ctxBook>>

usersVars == <<version, remoteUsers, users, isLoading, usersFetch, selectedUser,
               formData, mutation, invalidations, submits, userEvent>>

taskApiVars == <<tasks, taskShape, crashed, remoteTasks, taskPending, taskCalls,
                 renderPending, effectPending, model, taskLast>>

todoVars == <<todoTasks, todoNextId, todoState, todoShown>>

consoleVars == <<conTasks, conNextId, conShown, conRenders, conOps, conInputs,
                 scriptPos, conPre, conLast, count, logged, counterRenders,
                 counterOps, counterLast>>

vars == <<invVars, heapVars, singletonVars, contextVars, usersVars, taskApiVars,
          todoVars, consoleVars>>

\* what the actions of each example leave alone
nonInvVars ==
    <<heapVars, singletonVars, contextVars, usersVars, taskApiVars, todoVars, consoleVars>>

nonSingletonVars ==
    <<invVars, contextVars, usersVars, taskApiVars, todoVars, consoleVars>>

nonContextVars ==
    <<invVars, singletonVars, usersVars, taskApiVars, todoVars, consoleVars>>

nonUsersVars ==
    <<invVars, heapVars, singletonVars, contextVars, taskApiVars, todoVars, consoleVars>>

nonTaskApiVars ==
    <<invVars, heapVars, singletonVars, contextVars, usersVars, todoVars, consoleVars>>

nonTodoVars ==
    <<invVars, heapVars, singletonVars, contextVars, usersVars, taskApiVars,
      consoleVars>>

nonConsoleVars ==
    <<invVars, heapVars, singletonVars, contextVars, usersVars, taskApiVars,
      todoVars>>

NULL == "null"

(***************************************************************************)
(* Bounds of the model.                                                    *)
(***************************************************************************)
\* calls of the hook that may be in flight at once
MaxInFlight == 2
\* calls of the hook issued in one run
MaxCalls == 4
\* advances of the clock
MaxTicks == 1
\* books a caller adds to one array of books
MaxPushed == 1
\* renders of the BookControllerProvider components, all scopes together
MaxProviderRenders == 3
\* submissions of the UserForm in one run
MaxSubmits == 2
\* addTask and toggleTask calls of the TaskController in one run
MaxTaskCalls == 1
\* tasks added to the in-memory TaskModel
MaxTodoTasks == 4
\* calls of simulateUserInput in one run
MaxInputs == 4
\* calls of the counter's Controller in one run
MaxCounterOps == 4

(***************************************************************************)
(* Helpers on collections.                                                 *)
(***************************************************************************)
\* the identifiers of a collection, in order
Ids(s) == [i \in 1..Len(s) |-> s[i].id]

\* the set of identifiers of a collection
IdSet(s) == {s[i].id : i \in 1..Len(s)}

\* seq without its i-th element
RemoveAt(seq, i) == SubSeq(seq, 1, i - 1) \o SubSeq(seq, i + 1, Len(seq))

(***************************************************************************)
(* The simulated api.  Prices are kept in cents.                           *)
(***************************************************************************)
ApiFetchProducts ==
    << [id |-> 1, name |-> "Laptop",     price |-> 99999, stock |-> 50],
       [id |-> 2, name |-> "Smartphone", price |-> 49999, stock |-> 100],
       [id |-> 3, name |-> "Headphones", price |-> 9999,  stock |-> 200] >>

\* api.addProduct: { ...product, id: Date.now() }
ApiAddProduct(product, clock) ==
    [id |-> clock, name |-> product.name, price |-> product.price,
     stock |-> product.stock]

\* Date.now() is a number of milliseconds since 1970: it is larger than every
\* identifier of the fetched products.
ClockStart == Len(ApiFetchProducts) + 1

(***************************************************************************)
(* Inputs.                                                                 *)
(***************************************************************************)
\* the drafts a caller submits (Omit<Product, 'id'>)
Drafts == { [name |-> "Cable", price |-> 500, stock |-> 0] }

\* an identifier no product carries
AbsentId == 0

\* the identifiers a caller passes to updateStock: the first fetched product,
\* the products added to the collection, and an identifier never assigned
UpdateIds(current) ==
    {1, AbsentId} \cup {current[i].id : i \in Len(ApiFetchProducts) + 1 .. Len(current)}

\* the stock values a caller passes to updateStock
NewStocks == {51}

NoDraft == [name |-> "", price |-> 0, stock |-> 0]

NoCall == [op |-> "none", snap |-> <<>>, product |-> NoDraft, id |-> AbsentId,
           newStock |-> 0, value |-> <<>>]

NoLast == [op |-> "none", ok |-> TRUE, snap |-> <<>>, pre |-> <<>>,
           product |-> NoDraft, id |-> AbsentId, newStock |-> 0,
           value |-> <<>>, outcome |-> "done", promise |-> "fulfilled"]

(***************************************************************************)
(* What each operation writes to the products state when its api call      *)
(* resolves.  captured is the products value of the render the call was    *)
(* issued from.                                                            *)
(***************************************************************************)
\* a fetch that keeps the captured entries in front of the fetched ones
FetchedProductsMerged(captured, data) == captured \o data

\* fetchProducts: setProducts(data)
FetchedProducts(captured, data) == data

\* addProduct: setProducts([...products, newProduct])
ProductsWithNew(captured, newProduct) == Append(captured, newProduct)

\* an updateStock that adds newStock to the stock of the product
ProductsWithStockAdded(captured, id, newStock) ==
    [i \in 1..Len(captured) |->
        IF captured[i].id = id
        THEN [captured[i] EXCEPT !.stock = @ + newStock]
        ELSE captured[i]]

\* updateStock: setProducts(products.map(p => p.id === id ? {...p, stock: newStock} : p))
ProductsWithStock(captured, id, newStock) ==
    [i \in 1..Len(captured) |->
        IF captured[i].id = id
        THEN [captured[i] EXCEPT !.stock = newStock]
        ELSE captured[i]]

(***************************************************************************)
(* The observation of a completed call: ok, whether the api promise        *)
(* resolved; snap, the collection the call captured; pre, the collection   *)
(* right before the call completed; outcome, what the operation reported:  *)
(* "done", or the message it passed to setError (the promise of the        *)
(* operation itself never rejects, every body being inside try/catch);     *)
(* promise, how the promise of the operation itself settled.               *)
(***************************************************************************)
\* the promise an operation of the hook returns: the whole body is inside
\* try { ... } catch (err) { setError(...) }, so it fulfils either way
OperationPromise(ok) == "fulfilled"

Completed(call, ok, pre, outcome) ==
    [op |-> call.op, ok |-> ok, snap |-> call.snap, pre |-> pre,
     product |-> call.product, id |-> call.id, newStock |-> call.newStock,
     value |-> call.value, outcome |-> outcome, promise |-> OperationPromise(ok)]

(***************************************************************************)
(* useInventoryModel                                                       *)
(***************************************************************************)
InvInit ==
    /\ products = <<>>
    /\ loading = TRUE
    /\ error = NULL
    /\ pending = <<>>
    /\ now = ClockStart
    /\ calls = 0
    /\ last = NoLast

\* fetchProducts up to the await: setLoading(true), api.fetchProducts()
FetchProductsCall ==
    /\ Len(pending) < MaxInFlight
    /\ calls < MaxCalls
    /\ calls' = calls + 1
    /\ loading' = TRUE
    /\ pending' = Append(pending,
                    [NoCall EXCEPT !.op = "fetch", !.snap = products,
                                   !.value = ApiFetchProducts])
    /\ UNCHANGED <<products, error, now, last>>
    /\ UNCHANGED nonInvVars

\* a fetch whose catch branch also empties the collection
FetchProductsSettleClearing(i, ok) ==
    /\ i \in 1..Len(pending)
    /\ pending[i].op = "fetch"
    /\ IF ok
       THEN /\ products' = FetchedProducts(pending[i].snap, pending[i].value)
            /\ loading' = FALSE
            /\ UNCHANGED error
       ELSE /\ error' = "Failed to fetch products"
            /\ loading' = FALSE
            /\ products' = <<>>
    /\ last' = Completed(pending[i], ok, products,
                          IF ok THEN "done" ELSE "Failed to fetch products")
    /\ pending' = RemoveAt(pending, i)
    /\ UNCHANGED <<now, calls>>
    /\ UNCHANGED nonInvVars

\* a fetch whose catch branch leaves loading as it is
FetchProductsSettleStuck(i, ok) ==
    /\ i \in 1..Len(pending)
    /\ pending[i].op = "fetch"
    /\ IF ok
       THEN /\ products' = FetchedProducts(pending[i].snap, pending[i].value)
            /\ loading' = FALSE
            /\ UNCHANGED error
       ELSE /\ error' = "Failed to fetch products"
            /\ UNCHANGED loading
            /\ UNCHANGED products
    /\ last' = Completed(pending[i], ok, products,
                          IF ok THEN "done" ELSE "Failed to fetch products")
    /\ pending' = RemoveAt(pending, i)
    /\ UNCHANGED <<now, calls>>
    /\ UNCHANGED nonInvVars

\* a fetch whose try branch also calls setError(null)
FetchProductsSettleResetting(i, ok) ==
    /\ i \in 1..Len(pending)
    /\ pending[i].op = "fetch"
    /\ IF ok
       THEN /\ products' = FetchedProducts(pending[i].snap, pending[i].value)
            /\ loading' = FALSE
            /\ error' = NULL
       ELSE /\ error' = "Failed to fetch products"
            /\ loading' = FALSE
            /\ UNCHANGED products
    /\ last' = Completed(pending[i], ok, products,
                          IF ok THEN "done" ELSE "Failed to fetch products")
    /\ pending' = RemoveAt(pending, i)
    /\ UNCHANGED <<now, calls>>
    /\ UNCHANGED nonInvVars

\* fetchProducts after the await: the try branch or the catch branch
FetchProductsSettle(i, ok) ==
    /\ i \in 1..Len(pending)
    /\ pending[i].op = "fetch"
    /\ IF ok
       THEN /\ products' = FetchedProducts(pending[i].snap, pending[i].value)
            /\ loading' = FALSE
            /\ UNCHANGED error
       ELSE /\ error' = "Failed to fetch products"
            /\ loading' = FALSE
            /\ UNCHANGED products
    /\ last' = Completed(pending[i], ok, products,
                          IF ok THEN "done" ELSE "Failed to fetch products")
    /\ pending' = RemoveAt(pending, i)
    /\ UNCHANGED <<now, calls>>
    /\ UNCHANGED nonInvVars

\* addProduct up to the await: api.addProduct(product) reads the clock
AddProductCall(product) ==
    /\ Len(pending) < MaxInFlight
    /\ calls < MaxCalls
    /\ calls' = calls + 1
    /\ pending' = Append(pending,
                    [NoCall EXCEPT !.op = "add", !.snap = products,
                                   !.product = product,
                                   !.value = ApiAddProduct(product, now)])
    /\ UNCHANGED <<products, loading, error, now, last>>
    /\ UNCHANGED nonInvVars

\* an addProduct that appends its draft before it knows the api's answer
AddProductSettleOptimistic(i, ok) ==
    /\ i \in 1..Len(pending)
    /\ pending[i].op = "add"
    /\ products' = ProductsWithNew(pending[i].snap, pending[i].value)
    /\ IF ok
       THEN UNCHANGED error
       ELSE error' = "Failed to add product"
    /\ last' = Completed(pending[i], ok, products,
                          IF ok THEN "done" ELSE "Failed to add product")
    /\ pending' = RemoveAt(pending, i)
    /\ UNCHANGED <<loading, now, calls>>
    /\ UNCHANGED nonInvVars

\* addProduct after the await
AddProductSettle(i, ok) ==
    /\ i \in 1..Len(pending)
    /\ pending[i].op = "add"
    /\ IF ok
       THEN /\ products' = ProductsWithNew(pending[i].snap, pending[i].value)
            /\ UNCHANGED error
       ELSE /\ error' = "Failed to add product"
            /\ UNCHANGED products
    /\ last' = Completed(pending[i], ok, products,
                          IF ok THEN "done" ELSE "Failed to add product")
    /\ pending' = RemoveAt(pending, i)
    /\ UNCHANGED <<loading, now, calls>>
    /\ UNCHANGED nonInvVars

\* updateStock up to the await
UpdateStockCall(id, newStock) ==
    /\ Len(pending) < MaxInFlight
    /\ calls < MaxCalls
    /\ calls' = calls + 1
    /\ pending' = Append(pending,
                    [NoCall EXCEPT !.op = "update", !.snap = products,
                                   !.id = id, !.newStock = newStock])
    /\ UNCHANGED <<products, loading, error, now, last>>
    /\ UNCHANGED nonInvVars

\* an updateStock whose catch branch is empty
UpdateStockSettleSilent(i, ok) ==
    /\ i \in 1..Len(pending)
    /\ pending[i].op = "update"
    /\ IF ok
       THEN /\ products' = ProductsWithStock(pending[i].snap, pending[i].id,
                                             pending[i].newStock)
            /\ UNCHANGED error
       ELSE /\ UNCHANGED error
            /\ UNCHANGED products
    /\ last' = Completed(pending[i], ok, products,
                          IF ok THEN "done" ELSE "Failed to update stock")
    /\ pending' = RemoveAt(pending, i)
    /\ UNCHANGED <<loading, now, calls>>
    /\ UNCHANGED nonInvVars

\* updateStock after the await
UpdateStockSettle(i, ok) ==
    /\ i \in 1..Len(pending)
    /\ pending[i].op = "update"
    /\ IF ok
       THEN /\ products' = ProductsWithStock(pending[i].snap, pending[i].id,
                                             pending[i].newStock)
            /\ UNCHANGED error
       ELSE /\ error' = "Failed to update stock"
            /\ UNCHANGED products
    /\ last' = Completed(pending[i], ok, products,
                          IF ok THEN "done" ELSE "Failed to update stock")
    /\ pending' = RemoveAt(pending, i)
    /\ UNCHANGED <<loading, now, calls>>
    /\ UNCHANGED nonInvVars

\* a millisecond passes
Tick ==
    /\ now < ClockStart + MaxTicks
    /\ now' = now + 1
    /\ UNCHANGED <<products, loading, error, pending, calls, last>>
    /\ UNCHANGED nonInvVars

\* InventoryView: what it returns for the loading and error it is given
InventoryViewShows(loadingProp, errorProp) ==
    IF loadingProp THEN "Loading..."
    ELSE IF errorProp # NULL THEN "Error"
    ELSE "table"

InvNext ==
    \/ FetchProductsCall
    \/ \E i \in 1..MaxInFlight, ok \in BOOLEAN : FetchProductsSettle(i, ok)
    \/ \E product \in Drafts : AddProductCall(product)
    \/ \E i \in 1..MaxInFlight, ok \in BOOLEAN : AddProductSettle(i, ok)
    \/ \E id \in UpdateIds(products), newStock \in NewStocks : UpdateStockCall(id, newStock)
    \/ \E i \in 1..MaxInFlight, ok \in BOOLEAN : UpdateStockSettle(i, ok)
    \/ Tick

(***************************************************************************)
(* The library examples: BookModel, BookController and the two ways of     *)
(* sharing a controller.  Objects are heap entries, a reference is the     *)
(* index of its entry and 0 is null.                                       *)
(***************************************************************************)
\* BookModel: the value of the books field initializer
InitialBooks ==
    << [id |-> 1, title |-> "The Great Gatsby",      author |-> "F. Scott Fitzgerald"],
       [id |-> 2, title |-> "1984",                  author |-> "George Orwell"],
       [id |-> 3, title |-> "To Kill a Mockingbird", author |-> "Harper Lee"] >>

\* a book a caller adds to the array that getBooks returned to it
PushedBook == [id |-> 4, title |-> "Dune", author |-> "Frank Herbert"]

\* the ids the route of Detail may carry
RouteIds == 1..4

Components == {"Main", "Detail"}

Scopes == {"A", "B"}

\* the components that call useBookController, and the provider above each
Consumers == {"MainA", "DetailA", "MainB"}

ScopeOf(c) == IF c = "MainB" THEN "B" ELSE "A"

HeapInit ==
    /\ controllers = <<>>
    /\ models = <<>>
    /\ arrays = <<>>

\* new BookModel(): the books field initializer builds an array per instance
NewBooksField(nArrays) == nArrays + 1

\* new BookController(new BookModel()): the heap after the construction; the
\* new controller is the last entry of controllers
Construct ==
    LET booksRef == NewBooksField(Len(arrays)) IN
    /\ arrays' = IF booksRef > Len(arrays) THEN Append(arrays, InitialBooks) ELSE arrays
    /\ models' = Append(models, [books |-> booksRef])
    /\ controllers' = Append(controllers, [model |-> Len(models) + 1])

\* controller.getBooks(): this.model.getBooks() returns this.books itself
GetBooks(ref) == models[controllers[ref].model].books

\* the books reached through a controller reference
BooksVia(ref) == arrays[GetBooks(ref)]

\* a getBookById that takes the first book whose id is not below id
GetBookByIdAtLeast(ref, id) ==
    LET books == BooksVia(ref)
        hits == {i \in 1..Len(books) : books[i].id >= id} IN
    IF hits = {} THEN <<>>
    ELSE <<books[CHOOSE i \in hits : \A j \in hits : i <= j]>>

\* controller.getBookById(id): this.books.find(book => book.id === id); the
\* result is <<book>> for the first book with that id and <<>> for undefined
GetBookById(ref, id) ==
    LET books == BooksVia(ref)
        hits == {i \in 1..Len(books) : books[i].id = id} IN
    IF hits = {} THEN <<>>
    ELSE <<books[CHOOSE i \in hits : \A j \in hits : i <= j]>>

\* a caller adds a book to the array it reached through ref
PushThrough(ref) ==
    /\ ref # 0
    /\ Len(BooksVia(ref)) < Len(InitialBooks) + MaxPushed
    /\ arrays' = [arrays EXCEPT ![GetBooks(ref)] = Append(@, PushedBook)]
    /\ UNCHANGED <<controllers, models>>

(***************************************************************************)
(* Singleton version: BookControllerSingleton.ts, Main.tsx, Detail.tsx     *)
(***************************************************************************)
SingletonInit ==
    /\ instance = 0
    /\ held = [c \in Components |-> 0]
    /\ mainBooks = 0
    /\ detailId = 1
    /\ detailBook = <<>>
    /\ returned = {}

\* a getBookController that constructs a controller on every call
AlwaysNewInstance(slot, nControllers) == nControllers + 1

\* getBookController: the reference it returns, nControllers + 1 being the
\* controller it constructs when the slot is empty
GetBookController(slot, nControllers) ==
    IF slot = 0 THEN nControllers + 1 ELSE slot

\* a render of Main or Detail: const controller = getBookController()
ComponentRender(c) ==
    LET ref == GetBookController(instance, Len(controllers)) IN
    /\ IF ref > Len(controllers) THEN Construct ELSE UNCHANGED heapVars
    /\ instance' = ref
    /\ held' = [held EXCEPT ![c] = ref]
    /\ returned' = returned \cup {ref}
    /\ UNCHANGED <<mainBooks, detailId, detailBook>>
    /\ UNCHANGED nonSingletonVars

\* the effect of Main: setBooks(controller.getBooks())
MainEffect ==
    /\ held["Main"] # 0
    /\ mainBooks' = GetBooks(held["Main"])
    /\ UNCHANGED <<heapVars, instance, held, detailId, detailBook, returned>>
    /\ UNCHANGED nonSingletonVars

\* the route of Detail changes its id parameter
DetailRoute(id) ==
    /\ held["Detail"] # 0
    /\ id # detailId
    /\ detailId' = id
    /\ UNCHANGED <<heapVars, instance, held, mainBooks, detailBook, returned>>
    /\ UNCHANGED nonSingletonVars

\* the effect of Detail: setBook(controller.getBookById(Number(id)) || null)
DetailEffect ==
    /\ held["Detail"] # 0
    /\ detailBook' = GetBookById(held["Detail"], detailId)
    /\ UNCHANGED <<heapVars, instance, held, mainBooks, detailId, returned>>
    /\ UNCHANGED nonSingletonVars

\* the router unmounts a component: its state is dropped
ComponentUnmount(c) ==
    /\ held[c] # 0
    /\ held' = [held EXCEPT ![c] = 0]
    /\ mainBooks' = IF c = "Main" THEN 0 ELSE mainBooks
    /\ detailBook' = IF c = "Detail" THEN <<>> ELSE detailBook
    /\ UNCHANGED <<heapVars, instance, detailId, returned>>
    /\ UNCHANGED nonSingletonVars

\* a component adds a book to the array its controller's getBooks returns
ComponentPush(c) ==
    /\ PushThrough(held[c])
    /\ UNCHANGED singletonVars
    /\ UNCHANGED nonSingletonVars

SingletonNext ==
    \/ \E c \in Components : ComponentRender(c)
    \/ MainEffect
    \/ \E id \in RouteIds : DetailRoute(id)
    \/ DetailEffect
    \/ \E c \in Components : ComponentUnmount(c)
    \/ \E c \in Components : ComponentPush(c)

(***************************************************************************)
(* Context version: BookControllerContext.tsx                              *)
(***************************************************************************)
\* Main and Detail rendered with no BookControllerProvider above them
Outside == {"MainOut", "DetailOut"}

MainViews == {"MainA", "MainB", "MainOut"}

DetailViews == {"DetailA", "DetailOut"}

\* the value of Number and of parseInt that is no number: it equals no id
NaN == -1

\* the id parameters the route of Detail may carry
RouteParams == {"1", "4", "abc"}

\* Number(id)
ToNumber(param) ==
    CASE param = "1" -> 1
      [] param = "4" -> 4
      [] OTHER -> NaN

\* createContext<BookController | null>(null): the value without a provider
DefaultValue == 0

ContextInit ==
    /\ provided = [s \in Scopes |-> 0]
    /\ built = [s \in Scopes |-> 0]
    /\ ctxHeld = [c \in Consumers |-> 0]
    /\ ctxReturned = [s \in Scopes |-> {}]
    /\ outHeld = [v \in Outside |-> <<>>]
    /\ ctxRoute = "1"
    /\ ctxEffect = {}
    /\ ctxBooks = [v \in MainViews |-> 0]
    /\ ctxBook = [v \in DetailViews |-> <<>>]

\* the consumers mounted under the provider of scope s
MountedIn(s) == {c \in Consumers : ScopeOf(c) = s /\ ctxHeld[c] # 0}

\* a provider that passes down the one controller of the module
ProvidedShared(s, nControllers) == 1

\* BookControllerProvider: the value it passes down when it renders, the
\* controller it constructs in its body: const controller = new BookController(...)
ProvidedValue(s, nControllers) == nControllers + 1

\* a render of the BookControllerProvider of scope s, the first one or a later
\* one; the consumers below it render again with the value it passes down
ProviderRender(s) ==
    LET ref == ProvidedValue(s, Len(controllers)) IN
    /\ Len(controllers) < MaxProviderRenders
    /\ IF ref > Len(controllers) THEN Construct ELSE UNCHANGED heapVars
    /\ provided' = [provided EXCEPT ![s] = ref]
    /\ built' = [built EXCEPT ![s] = @ + 1]
    /\ ctxHeld' = [c \in Consumers |-> IF c \in MountedIn(s) THEN ref ELSE ctxHeld[c]]
    /\ ctxReturned' = [ctxReturned EXCEPT
                          ![s] = IF MountedIn(s) = {} THEN @ ELSE @ \cup {ref}]
    /\ ctxEffect' = IF ref = provided[s] THEN ctxEffect ELSE ctxEffect \cup MountedIn(s)
    /\ UNCHANGED <<outHeld, ctxRoute, ctxBooks, ctxBook>>
    /\ UNCHANGED nonContextVars

\* useBookController: useContext(BookControllerContext)
UseBookController(c) == provided[ScopeOf(c)]

\* a render of a consumer below a mounted provider; the first render of a
\* component, and a render with another controller, leaves its effect to run
ConsumerRender(c) ==
    /\ provided[ScopeOf(c)] # 0
    /\ ctxHeld' = [ctxHeld EXCEPT ![c] = UseBookController(c)]
    /\ ctxReturned' = [ctxReturned EXCEPT ![ScopeOf(c)] = @ \cup {UseBookController(c)}]
    /\ ctxEffect' = IF ctxHeld[c] # UseBookController(c)
                    THEN ctxEffect \cup {c} ELSE ctxEffect
    /\ UNCHANGED <<heapVars, provided, built, outHeld, ctxRoute, ctxBooks, ctxBook>>
    /\ UNCHANGED nonContextVars

\* the state a component starts with: useState([]) in Main, useState(null)
\* in Detail
WithoutState(states, v) == [states EXCEPT ![v] = IF v \in MainViews THEN 0 ELSE <<>>]

\* the router unmounts a consumer: its state is dropped
ConsumerUnmount(c) ==
    /\ ctxHeld[c] # 0
    /\ ctxHeld' = [ctxHeld EXCEPT ![c] = 0]
    /\ ctxEffect' = ctxEffect \ {c}
    /\ ctxBooks' = IF c \in MainViews THEN WithoutState(ctxBooks, c) ELSE ctxBooks
    /\ ctxBook' = IF c \in DetailViews THEN WithoutState(ctxBook, c) ELSE ctxBook
    /\ UNCHANGED <<heapVars, provided, built, ctxReturned, outHeld, ctxRoute>>
    /\ UNCHANGED nonContextVars

\* the first render of Main or Detail with no provider above it:
\* useBookController gives the default value of the context
OutsideRender(v) ==
    /\ outHeld[v] = <<>>
    /\ outHeld' = [outHeld EXCEPT ![v] = <<DefaultValue>>]
    /\ ctxEffect' = ctxEffect \cup {v}
    /\ UNCHANGED <<heapVars, provided, built, ctxHeld, ctxReturned, ctxRoute,
                   ctxBooks, ctxBook>>
    /\ UNCHANGED nonContextVars

\* the controller a mounted component got from useBookController
ControllerOf(v) == IF v \in Outside THEN outHeld[v][1] ELSE ctxHeld[v]

\* the effect of Main: setBooks(controller?.getBooks() || []); of Detail:
\* setBook(controller?.getBookById(Number(id)) || null)
ViewEffect(v) ==
    /\ v \in ctxEffect
    /\ ctxEffect' = ctxEffect \ {v}
    /\ ctxBooks' = IF v \in MainViews
                   THEN [ctxBooks EXCEPT ![v] = IF ControllerOf(v) = 0 THEN 0
                                                ELSE GetBooks(ControllerOf(v))]
                   ELSE ctxBooks
    /\ ctxBook' = IF v \in DetailViews
                  THEN [ctxBook EXCEPT ![v] = IF ControllerOf(v) = 0 THEN <<>>
                                              ELSE GetBookById(ControllerOf(v),
                                                               ToNumber(ctxRoute))]
                  ELSE ctxBook
    /\ UNCHANGED <<heapVars, provided, built, ctxHeld, ctxReturned, outHeld, ctxRoute>>
    /\ UNCHANGED nonContextVars

\* the mounted Detail components
MountedDetails ==
    {v \in DetailViews : IF v \in Outside THEN outHeld[v] # <<>> ELSE ctxHeld[v] # 0}

\* the route changes the id parameter: every mounted Detail renders again
\* and its effect is to run, id being a dependency
RouteChange(param) ==
    /\ param # ctxRoute
    /\ ctxRoute' = param
    /\ ctxEffect' = ctxEffect \cup MountedDetails
    /\ UNCHANGED <<heapVars, provided, built, ctxHeld, ctxReturned, outHeld,
                   ctxBooks, ctxBook>>
    /\ UNCHANGED nonContextVars

\* what Detail renders: the book, or <p>Book not found</p>
DetailShows(book) == IF book # <<>> THEN "book" ELSE "Book not found"

\* what Main renders: an item per book of its books state
MainShows(booksRef) == IF booksRef = 0 THEN <<>> ELSE arrays[booksRef]

\* a consumer adds a book to the array its controller's getBooks returns
ConsumerPush(c) ==
    /\ PushThrough(ctxHeld[c])
    /\ UNCHANGED contextVars
    /\ UNCHANGED nonContextVars

ContextNext ==
    \/ \E s \in Scopes : ProviderRender(s)
    \/ \E c \in Consumers : ConsumerRender(c)
    \/ \E c \in Consumers : ConsumerUnmount(c)
    \/ \E c \in Consumers : ConsumerPush(c)

\* the components of App.tsx, below its one provider
AppConsumers == {c \in Consumers : ScopeOf(c) = "A"}

\* the application with its views: one provider, Main and Detail below it,
\* and Main and Detail rendered without a provider
ContextViewsNext ==
    \/ ProviderRender("A")
    \/ \E c \in AppConsumers : ConsumerRender(c)
    \/ \E c \in AppConsumers : ConsumerUnmount(c)
    \/ \E c \in AppConsumers : ConsumerPush(c)
    \/ \E v \in Outside : OutsideRender(v)
    \/ \E v \in AppConsumers \cup Outside : ViewEffect(v)
    \/ \E param \in RouteParams : RouteChange(param)

(***************************************************************************)
(* The users example, in its two versions: components/users (users.md:     *)
(* UserList holds the users, UserForm uses react-hook-form) and views      *)
(* (UserView holds the users, UserForm holds formData).  In both the list  *)
(* is a useState filled once by the mount effect, and the mutations are    *)
(* react-query mutations whose onSuccess invalidates the 'users' query.    *)
(* No component of either version reads the users through a 'users'        *)
(* query, so an invalidation has no observer to refetch for.  One mutation *)
(* is in flight at a time.                                                 *)
(***************************************************************************)
Versions == {"components", "views"}

\* what the remote api holds when the application starts
RemoteUsers ==
    << [id |-> 1, name |-> "Ana", email |-> "ana@example.com"],
       [id |-> 2, name |-> "Bo",  email |-> "bo@example.com"] >>

\* the names a user types into the form
TypedNames == {"Cy"}

NoMutation == [status |-> "idle", data |-> <<>>, closes |-> FALSE]

UsersInit ==
    /\ version = "none"
    /\ remoteUsers = RemoteUsers
    /\ users = <<>>
    /\ isLoading = TRUE
    /\ usersFetch = "idle"
    /\ selectedUser = <<>>
    /\ formData = <<>>
    /\ mutation = NoMutation
    /\ invalidations = 0
    /\ submits = 0
    /\ userEvent = "none"

\* the api applies a PUT: the user with that id is replaced
RemoteUpdated(remote, user) ==
    [i \in 1..Len(remote) |-> IF remote[i].id = user.id THEN user ELSE remote[i]]

\* UserList / UserView mounts: the effect with no dependencies calls
\* userController.getAllUsers()
UsersMount(v) ==
    /\ version = "none"
    /\ version' = v
    /\ usersFetch' = "pending"
    /\ userEvent' = "mount"
    /\ UNCHANGED <<remoteUsers, users, isLoading, selectedUser, formData,
                   mutation, invalidations, submits>>
    /\ UNCHANGED nonUsersVars

\* the getAllUsers of the mount effect settles: setUsers(data) and, in
\* UserList, setLoading(false); a rejection is not caught
GetAllUsersSettle(ok) ==
    /\ usersFetch = "pending"
    /\ IF ok
       THEN /\ users' = remoteUsers
            /\ isLoading' = FALSE
            /\ usersFetch' = "done"
       ELSE /\ usersFetch' = "rejected"
            /\ UNCHANGED <<users, isLoading>>
    /\ userEvent' = "fetched"
    /\ UNCHANGED <<version, remoteUsers, selectedUser, formData, mutation,
                   invalidations, submits>>
    /\ UNCHANGED nonUsersVars

\* handleEdit(user): setSelectedUser(user).  The form of views copies the
\* user into formData (effect on [user]); react-hook-form reads its
\* defaultValues when the form mounts only
HandleEdit(i) ==
    /\ i \in 1..Len(users)
    /\ selectedUser # <<users[i]>>
    /\ selectedUser' = <<users[i]>>
    /\ formData' = IF version = "components" /\ selectedUser # <<>>
                   THEN formData
                   ELSE <<users[i]>>
    /\ userEvent' = "edit"
    /\ UNCHANGED <<version, remoteUsers, users, isLoading, usersFetch, mutation,
                   invalidations, submits>>
    /\ UNCHANGED nonUsersVars

\* the user types a name into the form
HandleChange(name) ==
    /\ formData # <<>>
    /\ formData[1].name # name
    /\ formData' = <<[formData[1] EXCEPT !.name = name]>>
    /\ userEvent' = "change"
    /\ UNCHANGED <<version, remoteUsers, users, isLoading, usersFetch,
                   selectedUser, mutation, invalidations, submits>>
    /\ UNCHANGED nonUsersVars

\* whether the mutate call of the form of version v carries
\* { onSuccess: () => { reset(); onClose(); } }
ClosesOnSuccess(v) == v = "components"

\* whether the submit handler of version v calls onClose() itself, right
\* after mutate
ClosesOnSubmit(v) == v = "views"

\* the form is submitted: onSubmit(data) / handleSubmit(e)
Submit ==
    /\ formData # <<>>
    /\ mutation.status # "pending"
    /\ submits < MaxSubmits
    /\ submits' = submits + 1
    /\ mutation' = [status |-> "pending", data |-> formData,
                    closes |-> ClosesOnSuccess(version)]
    /\ IF ClosesOnSubmit(version)
       THEN selectedUser' = <<>> /\ formData' = <<>>
       ELSE UNCHANGED <<selectedUser, formData>>
    /\ userEvent' = "submit"
    /\ UNCHANGED <<version, remoteUsers, users, isLoading, usersFetch,
                   invalidations>>
    /\ UNCHANGED nonUsersVars

\* userController.updateUser settles.  On success the onSuccess of the hook
\* invalidates the 'users' query, then the onSuccess of the mutate call, if
\* there is one, resets and closes the form; on failure nothing runs
UpdateUserSettle(ok) ==
    /\ mutation.status = "pending"
    /\ IF ok
       THEN /\ remoteUsers' = RemoteUpdated(remoteUsers, mutation.data[1])
            /\ invalidations' = invalidations + 1
            /\ mutation' = [mutation EXCEPT !.status = "success"]
            /\ IF mutation.closes
               THEN selectedUser' = <<>> /\ formData' = <<>>
               ELSE UNCHANGED <<selectedUser, formData>>
            /\ userEvent' = "success"
       ELSE /\ mutation' = [mutation EXCEPT !.status = "error"]
            /\ userEvent' = "failure"
            /\ UNCHANGED <<remoteUsers, invalidations, selectedUser, formData>>
    /\ UNCHANGED <<version, users, isLoading, usersFetch, submits>>
    /\ UNCHANGED nonUsersVars

\* the Cancelar button of the form of views: onClick={onClose}
HandleCancel ==
    /\ version = "views"
    /\ selectedUser # <<>>
    /\ selectedUser' = <<>>
    /\ formData' = <<>>
    /\ userEvent' = "cancel"
    /\ UNCHANGED <<version, remoteUsers, users, isLoading, usersFetch, mutation,
                   invalidations, submits>>
    /\ UNCHANGED nonUsersVars

UsersNext ==
    \/ \E v \in Versions : UsersMount(v)
    \/ \E ok \in BOOLEAN : GetAllUsersSettle(ok)
    \/ \E i \in 1..Len(RemoteUsers) : HandleEdit(i)
    \/ \E name \in TypedNames : HandleChange(name)
    \/ Submit
    \/ \E ok \in BOOLEAN : UpdateUserSettle(ok)
    \/ HandleCancel

(***************************************************************************)
(* The to-do example with an api (todos con api.md): TaskModel wraps       *)
(* fetch, TaskController holds the tasks state.  A response of the api is  *)
(* one of: "ok"; "status", a non-success status with a JSON error body;    *)
(* "network", the fetch promise (or the parse of the body) rejects.        *)
(* TaskModel never reads response.ok, so it parses the body of a "status"  *)
(* response like that of an "ok" one.                                      *)
(***************************************************************************)
Responses == {"ok", "status", "network"}

\* what the remote api holds when the component mounts
RemoteTasks ==
    << [id |-> 1, title |-> "delectus aut autem", completed |-> FALSE],
       [id |-> 2, title |-> "quis ut nam",        completed |-> TRUE] >>

\* the titles a user submits
Titles == {"nueva"}

\* a JSON error body read as a Task: it has no id, no title and no
\* completed field (undefined, kept here as 0, "" and FALSE)
ErrorBodyAsTask == [id |-> 0, title |-> "", completed |-> FALSE]

\* the identifier the api gives to a created task
NextTaskId(remote) == Len(remote) + 1

NoTaskCall == [op |-> "none", snap |-> <<>>, title |-> "", id |-> 0]

NoTaskLast == [op |-> "none", response |-> "ok", snap |-> <<>>, pre |-> <<>>,
               title |-> "", id |-> 0, outcome |-> "fulfilled"]

TaskCompleted(call, response, pre, outcome) ==
    [op |-> call.op, response |-> response, snap |-> call.snap, pre |-> pre,
     title |-> call.title, id |-> call.id, outcome |-> outcome]

\* how the promise of a TaskModel operation settles: only a rejection of
\* fetch (or of response.json()) makes it reject
ModelPromise(response) == IF response = "network" THEN "rejected" ELSE "fulfilled"

\* const model = new TaskModel(): an object no earlier render has seen.
\* Only the model of the previous render is ever compared with it, so two
\* tokens taken in turn stand for the fresh objects
NewTaskModel(previous) == IF previous = 1 THEN 2 ELSE 1

\* the dependencies [model] of the effect differ from those of the
\* previous render (Object.is on the model objects)
DepsChanged(previous, current) == previous # current

\* a toggleTask that flips the completed flag
TasksWithFlipped(captured, id) ==
    [i \in 1..Len(captured) |->
        IF captured[i].id = id
        THEN [captured[i] EXCEPT !.completed = ~@]
        ELSE captured[i]]

\* toggleTask: tasks.map(task => task.id === id ? {...task, completed: true} : task)
TasksWithCompleted(captured, id) ==
    [i \in 1..Len(captured) |->
        IF captured[i].id = id
        THEN [captured[i] EXCEPT !.completed = TRUE]
        ELSE captured[i]]

TaskApiInit ==
    /\ tasks = <<>>
    /\ taskShape = "array"
    /\ crashed = FALSE
    /\ remoteTasks = RemoteTasks
    /\ taskPending = <<>>
    /\ taskCalls = 0
    /\ renderPending = TRUE
    /\ effectPending = FALSE
    /\ model = 0
    /\ taskLast = NoTaskLast

\* a render of TaskController: it creates its model; TaskView calls
\* tasks.map, which throws when tasks is no array; the effect is scheduled
\* when its dependencies changed
TaskRender ==
    /\ renderPending
    /\ ~effectPending
    /\ ~crashed
    /\ renderPending' = FALSE
    /\ IF taskShape = "array"
       THEN /\ model' = NewTaskModel(model)
            /\ effectPending' = DepsChanged(model, model')
            /\ UNCHANGED crashed
       ELSE /\ crashed' = TRUE
            /\ UNCHANGED <<model, effectPending>>
    /\ UNCHANGED <<tasks, taskShape, remoteTasks, taskPending, taskCalls, taskLast>>
    /\ UNCHANGED nonTaskApiVars

\* the effect: fetchTasks() up to the await of model.getTasks()
TaskEffect ==
    /\ effectPending
    /\ ~crashed
    /\ effectPending' = FALSE
    /\ taskPending' = Append(taskPending, [NoTaskCall EXCEPT !.op = "get", !.snap = tasks])
    /\ UNCHANGED <<tasks, taskShape, crashed, remoteTasks, taskCalls,
                   renderPending, model, taskLast>>
    /\ UNCHANGED nonTaskApiVars

\* fetchTasks after the await: setTasks(initialTasks)
GetTasksSettle(i, response) ==
    /\ i \in 1..Len(taskPending)
    /\ taskPending[i].op = "get"
    /\ ~crashed
    /\ CASE response = "ok" ->
              /\ tasks' = remoteTasks
              /\ taskShape' = "array"
              /\ renderPending' = TRUE
         [] response = "status" ->
              /\ tasks' = <<>>
              /\ taskShape' = "object"
              /\ renderPending' = TRUE
         [] OTHER ->
              UNCHANGED <<tasks, taskShape, renderPending>>
    /\ taskLast' = TaskCompleted(taskPending[i], response, tasks, ModelPromise(response))
    /\ taskPending' = RemoveAt(taskPending, i)
    /\ UNCHANGED <<crashed, remoteTasks, taskCalls, effectPending, model>>
    /\ UNCHANGED nonTaskApiVars

\* handlers run between commits: with the tasks of the last render, after
\* its effect
Interactive == ~crashed /\ ~renderPending /\ ~effectPending /\ model # 0

\* addTask(title) up to the await of model.addTask(title)
AddTaskCall(title) ==
    /\ Interactive
    /\ taskCalls < MaxTaskCalls
    /\ taskCalls' = taskCalls + 1
    /\ taskPending' = Append(taskPending,
                         [NoTaskCall EXCEPT !.op = "add", !.snap = tasks, !.title = title])
    /\ UNCHANGED <<tasks, taskShape, crashed, remoteTasks, renderPending,
                   effectPending, model, taskLast>>
    /\ UNCHANGED nonTaskApiVars

\* addTask after the await: setTasks([...tasks, newTask])
AddTaskSettle(i, response) ==
    /\ i \in 1..Len(taskPending)
    /\ taskPending[i].op = "add"
    /\ ~crashed
    /\ CASE response = "ok" ->
              LET newTask == [id |-> NextTaskId(remoteTasks),
                              title |-> taskPending[i].title,
                              completed |-> FALSE] IN
              /\ remoteTasks' = Append(remoteTasks, newTask)
              /\ tasks' = Append(taskPending[i].snap, newTask)
              /\ taskShape' = "array"
              /\ renderPending' = TRUE
         [] response = "status" ->
              /\ tasks' = Append(taskPending[i].snap, ErrorBodyAsTask)
              /\ taskShape' = "array"
              /\ renderPending' = TRUE
              /\ UNCHANGED remoteTasks
         [] OTHER ->
              UNCHANGED <<tasks, taskShape, renderPending, remoteTasks>>
    /\ taskLast' = TaskCompleted(taskPending[i], response, tasks, ModelPromise(response))
    /\ taskPending' = RemoveAt(taskPending, i)
    /\ UNCHANGED <<crashed, taskCalls, effectPending, model>>
    /\ UNCHANGED nonTaskApiVars

\* toggleTask(id) up to the await of model.toggleTask(id); the view offers
\* the ids of the tasks it shows
ToggleTaskCall(id) ==
    /\ Interactive
    /\ id \in IdSet(tasks)
    /\ taskCalls < MaxTaskCalls
    /\ taskCalls' = taskCalls + 1
    /\ taskPending' = Append(taskPending,
                         [NoTaskCall EXCEPT !.op = "toggle", !.snap = tasks, !.id = id])
    /\ UNCHANGED <<tasks, taskShape, crashed, remoteTasks, renderPending,
                   effectPending, model, taskLast>>
    /\ UNCHANGED nonTaskApiVars

\* toggleTask after the await: the body of the response is parsed and
\* dropped, then setTasks(updatedTasks)
ToggleTaskSettle(i, response) ==
    /\ i \in 1..Len(taskPending)
    /\ taskPending[i].op = "toggle"
    /\ ~crashed
    /\ IF response = "network"
       THEN UNCHANGED <<tasks, taskShape, renderPending, remoteTasks>>
       ELSE /\ tasks' = TasksWithCompleted(taskPending[i].snap, taskPending[i].id)
            /\ taskShape' = "array"
            /\ renderPending' = TRUE
            /\ remoteTasks' = IF response = "ok"
                              THEN TasksWithCompleted(remoteTasks, taskPending[i].id)
                              ELSE remoteTasks
    /\ taskLast' = TaskCompleted(taskPending[i], response, tasks, ModelPromise(response))
    /\ taskPending' = RemoveAt(taskPending, i)
    /\ UNCHANGED <<crashed, taskCalls, effectPending, model>>
    /\ UNCHANGED nonTaskApiVars

\* the calls that may be in flight at once: the gets of the effects, one
\* more for every render a user call caused, and the user calls
MaxTaskPending == 2 * MaxTaskCalls + 1

TaskApiNext ==
    \/ TaskRender
    \/ TaskEffect
    \/ \E i \in 1..MaxTaskPending, response \in Responses : GetTasksSettle(i, response)
    \/ \E title \in Titles : AddTaskCall(title)
    \/ \E i \in 1..MaxTaskPending, response \in Responses : AddTaskSettle(i, response)
    \/ \E id \in 0..(Len(RemoteTasks) + MaxTaskCalls) : ToggleTaskCall(id)
    \/ \E i \in 1..MaxTaskPending, response \in Responses : ToggleTaskSettle(i, response)

(***************************************************************************)
(* The in-memory to-do example in React (ejemplo en REACT.md): TaskModel   *)
(* keeps its tasks in one array that addTask pushes onto, and getTasks     *)
(* returns that array.  TaskController keeps the model and the value       *)
(* getTasks returned in two states; a handler changes the model and calls  *)
(* setTasks(model.getTasks()).  A setState with a value that is Object.is  *)
(* the current state schedules no render.  The only reference in play is   *)
(* the one of the array of the model.                                      *)
(***************************************************************************)
\* the reference of the array TaskModel.tasks, which is never reassigned
ModelTasksRef == 1

\* the titles a user submits
TodoTitles == {"comprar", "leer", "correr"}

\* model.getTasks(): return this.tasks
GetTasks == ModelTasksRef

\* setTasks(value): React renders again when the value is not the state
RendersAgain(state, value) == state # value

TodoInit ==
    /\ todoTasks = <<>>
    /\ todoNextId = 1
    /\ todoState = ModelTasksRef
    /\ todoShown = <<>>

\* handleAddTask with a title: model.addTask(title) pushes
\* { id: this.nextId++, title, completed: false }, then
\* setTasks(model.getTasks()); a render shows the tasks of the model
TodoAddTask(title) ==
    LET value == GetTasks IN
    /\ Len(todoTasks) < MaxTodoTasks
    /\ todoTasks' = Append(todoTasks,
                       [id |-> todoNextId, title |-> title, completed |-> FALSE])
    /\ todoNextId' = todoNextId + 1
    /\ todoState' = value
    /\ todoShown' = IF RendersAgain(todoState, value) THEN todoTasks' ELSE todoShown
    /\ UNCHANGED nonTodoVars

\* toggleTask(id) is reached only through a click on a task that TaskView
\* shows, and TaskView keeps showing the empty list of the first render
TodoNext ==
    \E title \in TodoTitles : TodoAddTask(title)

(***************************************************************************)
(* The console examples.  The to-do of ejemplo en Typescript.md: TaskModel *)
(* (the same class as in the React example), TaskView printing to the      *)
(* console, TaskController and simulateUserInput.  An input is kept as the *)
(* tokens input.split(' ') gives, "" being the token between two adjacent  *)
(* spaces.  The counter of counter MVC en Typescript.ts: Count, Controller *)
(* and a View.                                                             *)
(***************************************************************************)
\* the inputs of the script of app.ts, in order
Script ==
    << <<"add", "Comprar", "leche">>,
       <<"add", "Hacer", "la", "tarea">>,
       <<"toggle", "1">>,
       <<"toggle", "2">> >>

\* the inputs simulateUserInput is called with: those of the script, a
\* toggle without argument, with an empty argument, with no number, with an
\* id no task has, an add without title and an unknown command
Inputs ==
    {Script[k] : k \in 1..Len(Script)} \cup
    { <<"toggle">>, <<"toggle", "">>, <<"toggle", "x">>, <<"toggle", "7">>,
      <<"add">>, <<"remove", "1">> }

\* parseInt(args[0]) for the tokens of Inputs
ParseInt(token) ==
    CASE token = "1" -> 1
      [] token = "2" -> 2
      [] token = "7" -> 7
      [] OTHER -> NaN

\* args.join(' ')
RECURSIVE Join(_)
Join(args) ==
    IF args = <<>> THEN ""
    ELSE IF Len(args) = 1 THEN args[1]
    ELSE args[1] \o " " \o Join(Tail(args))

NoCommand == [op |-> "none", title |-> "", id |-> NaN]

\* a simulateUserInput that does not test args[0]
CommandOfUntested(input) ==
    LET command == Head(input)
        args == Tail(input) IN
    IF command = "add"
    THEN [NoCommand EXCEPT !.op = "add", !.title = Join(args)]
    ELSE IF command = "toggle"
    THEN [NoCommand EXCEPT !.op = "toggle",
                           !.id = IF args = <<>> THEN NaN ELSE ParseInt(args[1])]
    ELSE NoCommand

\* simulateUserInput: the controller operation an input leads to;
\* args[0] is undefined without arguments, and '' is falsy
CommandOf(input) ==
    LET command == Head(input)
        args == Tail(input) IN
    IF command = "add"
    THEN [NoCommand EXCEPT !.op = "add", !.title = Join(args)]
    ELSE IF command = "toggle" /\ args # <<>> /\ args[1] # ""
    THEN [NoCommand EXCEPT !.op = "toggle", !.id = ParseInt(args[1])]
    ELSE NoCommand

\* an addTask that takes the number of tasks as the id
NewTaskCounted(tasks_, nextId, title) ==
    [id |-> Len(tasks_), title |-> title, completed |-> FALSE]

\* TaskModel.addTask: { id: this.nextId++, title, completed: false }
NewTask(tasks_, nextId, title) ==
    [id |-> nextId, title |-> title, completed |-> FALSE]

\* a toggleTask that flips every task from the one found on
ToggledFrom(tasks_, id) ==
    LET hits == {i \in 1..Len(tasks_) : tasks_[i].id = id} IN
    IF hits = {} THEN tasks_
    ELSE LET first == CHOOSE i \in hits : \A j \in hits : i <= j IN
         [i \in 1..Len(tasks_) |->
            IF i >= first THEN [tasks_[i] EXCEPT !.completed = ~@] ELSE tasks_[i]]

\* TaskModel.toggleTask: find gives the first task with the id, if any,
\* and its completed flag is flipped in place
Toggled(tasks_, id) ==
    LET hits == {i \in 1..Len(tasks_) : tasks_[i].id = id} IN
    IF hits = {} THEN tasks_
    ELSE LET first == CHOOSE i \in hits : \A j \in hits : i <= j IN
         [tasks_ EXCEPT ![first].completed = ~@]

ConsoleTodoInit ==
    /\ conTasks = <<>>
    /\ conNextId = 1
    /\ conShown = <<>>
    /\ conRenders = 0
    /\ conOps = 0
    /\ conInputs = 0
    /\ scriptPos = 0
    /\ conPre = [tasks |-> <<>>, nextId |-> 1]
    /\ conLast = <<"none">>

\* TaskController.addTask / toggleTask: the model operation, then
\* updateView, which passes model.getTasks() to view.render
ControllerOperation(command) ==
    /\ IF command.op = "add"
       THEN /\ conTasks' = Append(conTasks, NewTask(conTasks, conNextId, command.title))
            /\ conNextId' = conNextId + 1
       ELSE /\ conTasks' = Toggled(conTasks, command.id)
            /\ UNCHANGED conNextId
    /\ conShown' = <<conTasks'>>
    /\ conRenders' = conRenders + 1
    /\ conOps' = conOps + 1

\* simulateUserInput(input)
SimulateUserInput(input) ==
    /\ conInputs < MaxInputs
    /\ conInputs' = conInputs + 1
    /\ IF CommandOf(input).op = "none"
       THEN UNCHANGED <<conTasks, conNextId, conShown, conRenders, conOps>>
       ELSE ControllerOperation(CommandOf(input))
    /\ conPre' = [tasks |-> conTasks, nextId |-> conNextId]
    /\ conLast' = input
    /\ scriptPos' = IF scriptPos >= 0 /\ scriptPos < Len(Script)
                       /\ input = Script[scriptPos + 1]
                    THEN scriptPos + 1
                    ELSE -1
    /\ UNCHANGED <<count, logged, counterRenders, counterOps, counterLast>>
    /\ UNCHANGED nonConsoleVars

\* new Count(): the default initial value
CounterInit ==
    /\ count = 0
    /\ logged = <<>>
    /\ counterRenders = 0
    /\ counterOps = 0
    /\ counterLast = "none"

\* a decrement without the test
DecrementedUnguarded(c) == c - 1

\* Count.decrement: if (this.count > 0) this.count -= 1
Decremented(c) == IF c > 0 THEN c - 1 ELSE c

\* Count.increment: this.count += 1
Incremented(c) == c + 1

\* a controller that renders the value the model had before the operation
RenderedStale(before, after) == before

\* Controller: this.view.render(this.model.get()) after the operation
Rendered(before, after) == after

\* Controller.get / increment / decrement
ControllerCall(op) ==
    /\ counterOps < MaxCounterOps
    /\ counterOps' = counterOps + 1
    /\ counterLast' = op
    /\ count' = CASE op = "increment" -> Incremented(count)
                  [] op = "decrement" -> Decremented(count)
                  [] OTHER -> count
    /\ logged' = <<Rendered(count, count')>>
    /\ counterRenders' = counterRenders + 1
    /\ UNCHANGED <<conTasks, conNextId, conShown, conRenders, conOps, conInputs,
                   scriptPos, conPre, conLast>>
    /\ UNCHANGED nonConsoleVars

ConsoleNext ==
    \/ \E input \in Inputs : SimulateUserInput(input)
    \/ \E op \in {"get", "increment", "decrement"} : ControllerCall(op)

(***************************************************************************)
(* The specifications: one per example.                                    *)
(***************************************************************************)
Init ==
    /\ InvInit /\ HeapInit /\ SingletonInit /\ ContextInit
    /\ UsersInit /\ TaskApiInit /\ TodoInit
    /\ ConsoleTodoInit /\ CounterInit

\* useInventoryModel
Next == InvNext

Spec == Init /\ [][Next]_vars

\* the singleton version of the library
NextSingleton == SingletonNext

SpecSingleton == Init /\ [][NextSingleton]_vars

\* the Context version of the library
NextContext == ContextNext

SpecContext == Init /\ [][NextContext]_vars

\* the users example
NextUsers == UsersNext

SpecUsers == Init /\ [][NextUsers]_vars

\* the to-do example with an api
NextTaskApi == TaskApiNext

SpecTaskApi == Init /\ [][NextTaskApi]_vars

\* the in-memory to-do example in React
NextTodo == TodoNext

SpecTodo == Init /\ [][NextTodo]_vars

\* the context version with the views of Main and Detail
NextContextViews == ContextViewsNext

SpecContextViews == Init /\ [][NextContextViews]_vars

\* the console examples
NextConsole == ConsoleNext

SpecConsole == Init /\ [][NextConsole]_vars

\* the same, with what React and the network guarantee: a scheduled render
\* is made, a scheduled effect runs, every request gets some response
SpecTaskApiFair ==
    /\ SpecTaskApi
    /\ WF_vars(TaskRender)
    /\ WF_vars(TaskEffect)
    /\ WF_vars(\E i \in 1..MaxTaskPending, response \in Responses :
                  GetTasksSettle(i, response))

(***************************************************************************)
(* Properties of useInventoryModel, checked under Spec.                    *)
(***************************************************************************)
\* whether the last completed call is op and its api promise resolved (ok)
LastWas(op, ok) == last.op = op /\ last.ok = ok

\* no identifier occurs twice in s
NoDuplicateId(s) == \A i, j \in 1..Len(s) : i # j => s[i].id # s[j].id

\* C1: a successful create leaves the collection it was issued against with
\* exactly one more entity, at the end, whose identifier differs from every
\* identifier already there; the entities that were there keep their values
\* and positions.
C1_CreateAppendsOneFreshEntity ==
    LastWas("add", TRUE) =>
        /\ Len(products) = Len(last.snap) + 1
        /\ SubSeq(products, 1, Len(last.snap)) = last.snap
        /\ products[Len(products)].id \notin IdSet(last.snap)

\* C2: a successful update of an identifier the collection holds keeps the
\* length and the order of the identifiers, gives the entry at one position,
\* which carries that identifier, the new stock, and leaves the entry at every
\* other position as it was.
C2_UpdateChangesOneEntry ==
    (LastWas("update", TRUE) /\ last.id \in IdSet(last.snap)) =>
        /\ Len(products) = Len(last.snap)
        /\ Ids(products) = Ids(last.snap)
        /\ \E k \in 1..Len(last.snap) :
              /\ last.snap[k].id = last.id
              /\ products[k] = [last.snap[k] EXCEPT !.stock = last.newStock]
              /\ \A i \in 1..Len(last.snap) : i # k => products[i] = last.snap[i]

\* C3: an update of an identifier the collection does not hold reports
\* NotFound to its caller and leaves the collection as it was.
C3_UpdateOfAbsentIdReportsNotFound ==
    (last.op = "update" /\ last.id \notin IdSet(last.snap)) =>
        /\ last.outcome = "NotFound"
        /\ products = last.pre

\* C4: a fetchProducts whose api call fails leaves the collection as it was
\* right before the failure, whatever it held.
C4_FailedFetchKeepsCollection ==
    LastWas("fetch", FALSE) => products = last.pre

\* C4 witness: a fetch has failed over a collection that held products.
C4_Witness == LastWas("fetch", FALSE) /\ last.pre # <<>>

\* C5: after a fetchProducts whose api call succeeds the collection is the
\* list the api returned, entry for entry; what was only local is gone.
C5_FetchReplacesCollection ==
    LastWas("fetch", TRUE) =>
        /\ products = last.value
        /\ last.value = ApiFetchProducts

\* C5 witness: a fetch has succeeded over a collection that held a product the
\* api did not return.
C5_Witness ==
    /\ LastWas("fetch", TRUE)
    /\ \E i \in 1..Len(last.pre) : last.pre[i].id \notin IdSet(products)

\* C6: an addProduct or updateStock whose api call fails leaves the collection
\* as it was right before the failure.
C6_FailedMutationKeepsCollection ==
    ((last.op = "add" \/ last.op = "update") /\ ~last.ok) => products = last.pre

\* C6 witness: an addProduct has failed over a collection that held products.
C6_Witness == LastWas("add", FALSE) /\ last.pre # <<>>

\* C7: every entity of the collection has an identifier, and no two entities
\* of the collection share one.
C7_IdentifiersUnique ==
    /\ \A i \in 1..Len(products) : products[i].id \in Nat
    /\ NoDuplicateId(products)

(***************************************************************************)
(* Properties of the singleton version, checked under SpecSingleton.       *)
(***************************************************************************)
\* C8: getBookController constructs a controller, and its model, on its first
\* call and never again; every call returns the controller in the slot, which
\* is never empty afterwards; all holders reach the same array of books, so a
\* change made through one reference shows through every other.
C8_SingletonIsConstructedOnce ==
    /\ Len(controllers) <= 1
    /\ Len(models) <= 1
    /\ (returned = {}) <=> (Len(controllers) = 0)
    /\ returned # {} => (instance # 0 /\ returned = {instance})
    /\ \A c \in Components : held[c] # 0 => held[c] = instance
    /\ \A c, d \in Components :
          (held[c] # 0 /\ held[d] # 0) =>
              /\ GetBooks(held[c]) = GetBooks(held[d])
              /\ BooksVia(held[c]) = BooksVia(held[d])
    /\ mainBooks # 0 => mainBooks = GetBooks(instance)

\* C8 witness: Main and Detail both hold a controller, a book was added through
\* one reference and Detail has read it through its own.
C8_Witness ==
    /\ held["Main"] # 0
    /\ held["Detail"] # 0
    /\ mainBooks # 0
    /\ Len(arrays[mainBooks]) > Len(InitialBooks)
    /\ detailBook = <<PushedBook>>

(***************************************************************************)
(* Properties of the Context version, checked under SpecContext.           *)
(***************************************************************************)
\* C9: the provider of a scope constructs its controller exactly once, and
\* every call of useBookController below it returns that one controller,
\* however often the provider renders.
C9_ProviderConstructsOnce ==
    \A s \in Scopes :
        /\ built[s] <= 1
        /\ Cardinality(ctxReturned[s]) <= 1

\* whether c and d are mounted consumers of two different scopes
Apart(c, d) == ScopeOf(c) # ScopeOf(d) /\ ctxHeld[c] # 0 /\ ctxHeld[d] # 0

\* two scopes share no controller, no model and no array of books
C10_ScopesShareNothing ==
    /\ \A s, t \in Scopes : s # t => ctxReturned[s] \cap ctxReturned[t] = {}
    /\ \A s, t \in Scopes : (s # t /\ provided[s] # 0) => provided[s] # provided[t]
    /\ \A c, d \in Consumers :
          Apart(c, d) =>
              /\ ctxHeld[c] # ctxHeld[d]
              /\ controllers[ctxHeld[c]].model # controllers[ctxHeld[d]].model
              /\ GetBooks(ctxHeld[c]) # GetBooks(ctxHeld[d])

\* a step that changes the books a consumer reaches leaves the books reached
\* by the consumers of the other scope as they were
C10_PushStaysInScope ==
    \A c, d \in Consumers :
        (Apart(c, d) /\ ctxHeld' = ctxHeld /\ arrays'[GetBooks(ctxHeld[c])] # BooksVia(ctxHeld[c]))
            => arrays'[GetBooks(ctxHeld[d])] = BooksVia(ctxHeld[d])

\* C10: the providers of two scopes hold two distinct stores; a consumer of one
\* scope never obtains the controller of the other, and a change made to the
\* books of one scope does not show through the other.
C10_ScopesAreIsolated == [](C10_ScopesShareNothing) /\ [][C10_PushStaysInScope]_vars

\* C10 witness: consumers of both scopes hold a controller, and a book was added
\* in scope A that scope B does not show.
C10_Witness ==
    /\ ctxHeld["MainA"] # 0
    /\ ctxHeld["MainB"] # 0
    /\ Len(BooksVia(ctxHeld["MainA"])) > Len(InitialBooks)
    /\ BooksVia(ctxHeld["MainB"]) = InitialBooks

FailureMessage(op) ==
    CASE op = "fetch"  -> "Failed to fetch products"
      [] op = "add"    -> "Failed to add product"
      [] op = "update" -> "Failed to update stock"
      [] OTHER         -> "done"

C15_RetryCompletes ==
    /\ Len(pending') < Len(pending)
    /\ last.op \in {"fetch", "update"}
    /\ last.ok /\ last'.ok
    /\ last'.op = last.op
    /\ last'.id = last.id
    /\ last'.newStock = last.newStock
    /\ last'.value = last.value
    /\ last'.snap = products

C15_FailedKeepsIds == ~last.ok => Ids(products) = Ids(last.pre)

C15_RetryConverges ==
    /\ [](C15_FailedKeepsIds)
    /\ [][C15_RetryCompletes => products' = products]_vars

\* a second successful updateStock of a product that already carried the
\* new stock when the call was issued has completed
C15_Witness ==
    /\ LastWas("update", TRUE)
    /\ last.snap = last.pre
    /\ \E i \in 1..Len(last.snap) :
          last.snap[i].id = last.id /\ last.snap[i].stock = last.newStock

(***************************************************************************)
(* C17: the collection is empty at construction, becomes non-empty only    *)
(* through a fetch or a create, and its length never decreases when an     *)
(* addProduct or an updateStock completes.                                 *)
(***************************************************************************)
\* the collection becomes non-empty in this step
C17_BecomesNonEmpty == products = <<>> /\ products' # <<>>

C17_StartsEmptyNeverShrinks ==
    /\ [](calls = 0 => products = <<>>)
    /\ [][C17_BecomesNonEmpty => (last'.ok /\ last'.op \in {"fetch", "add"})]_vars
    /\ [](last.op \in {"add", "update"} => Len(products) >= Len(last.pre))

(***************************************************************************)
(* C18: when two mutations were issued from the same rendered state and    *)
(* both resolve successfully, the one that completes second keeps the      *)
(* effect of the first: it writes its own change onto the collection the   *)
(* first one left, not onto the collection it captured.                    *)
(***************************************************************************)
\* the second of two mutations issued from the same products completes
C18_SecondCompletes ==
    /\ Len(pending') < Len(pending)
    /\ last.op \in {"add", "update"} /\ last'.op \in {"add", "update"}
    /\ last.ok /\ last'.ok
    /\ last'.snap = last.snap
    /\ products # last.snap

C18_BothReflected ==
    IF last'.op = "add"
    THEN products' = ProductsWithNew(products, last'.value)
    ELSE products' = ProductsWithStock(products, last'.id, last'.newStock)

C18_ConcurrentMutationsBothReflected ==
    [][C18_SecondCompletes => C18_BothReflected]_vars

(***************************************************************************)
(* C14: a read operation hands out a copy or a read-only view: whatever a  *)
(* caller does to the value getBooks returned, the collection of the store *)
(* stays what the store made it.  BookModel has no operation that writes   *)
(* its books, so the books of every model stay the initial ones.           *)
(***************************************************************************)
C14_ReadHandsOutACopy ==
    \A m \in 1..Len(models) : arrays[models[m].books] = InitialBooks

(***************************************************************************)
(* Properties of the users example, checked under SpecUsers.               *)
(***************************************************************************)
(***************************************************************************)
(* C11: after an update of a user has resolved successfully the list the   *)
(* caller observes reflects it.  Stated for the states in which nothing    *)
(* that could still write the list is in flight: the mount effect's        *)
(* getAllUsers has settled and the mutation has succeeded.                 *)
(***************************************************************************)
C11_ListReflectsMutation ==
    (mutation.status = "success" /\ usersFetch # "pending") =>
        \E i \in 1..Len(users) : users[i] = mutation.data[1]

(***************************************************************************)
(* C20: the form is closed by its submission only when the mutation has    *)
(* succeeded, and the 'users' query is invalidated only then; a failure    *)
(* of the mutation leaves the form as it is and invalidates nothing.       *)
(***************************************************************************)
\* the form goes from open to closed in this step
C20_FormCloses == selectedUser # <<>> /\ selectedUser' = <<>>

C20_ClosesAndInvalidatesOnSuccessOnly ==
    [][ /\ C20_FormCloses => userEvent' \in {"success", "cancel"}
        /\ invalidations' # invalidations => userEvent' = "success"
        /\ (mutation.status = "pending" /\ userEvent' = "failure") =>
               selectedUser' = selectedUser /\ invalidations' = invalidations
      ]_vars

(***************************************************************************)
(* Properties of the to-do example with an api, checked under SpecTaskApi  *)
(* and SpecTaskApiFair.                                                    *)
(***************************************************************************)
(***************************************************************************)
(* C13: a response with a non-success status makes the operation fail as   *)
(* a transport failure does: its promise rejects, the body of the response *)
(* is not taken as the collection or as an entity, and the local           *)
(* collection is left as it was.                                           *)
(***************************************************************************)
C13_NonSuccessFailsLikeTransport ==
    taskLast.response = "status" =>
        /\ taskLast.outcome = "rejected"
        /\ taskShape = "array"
        /\ tasks = taskLast.pre

(***************************************************************************)
(* C19: after the mount and without any user input the component reaches   *)
(* a quiescent state: from some point on no render and no effect is        *)
(* pending and no getTasks request is in flight.                           *)
(***************************************************************************)
TaskQuiet ==
    /\ ~renderPending
    /\ ~effectPending
    /\ \A i \in 1..Len(taskPending) : taskPending[i].op # "get"

C19_MountReachesQuiescence == [](taskCalls = 0) => <>[]TaskQuiet

(***************************************************************************)
(* C16: in the in-memory React to-do, after a task has been added the      *)
(* task list shown reflects the state of the model: the handler's setTasks *)
(* made the component render again.                                        *)
(***************************************************************************)
C16_ShownListReflectsModel == todoShown = todoTasks

(***************************************************************************)
(* C26: loading is true from construction until the first fetchProducts    *)
(* completes: only the completion of a fetchProducts turns it false.  The  *)
(* completion of every fetchProducts, resolved or rejected, leaves loading *)
(* false, and a rejected one leaves error 'Failed to fetch products'.      *)
(* (That the promise of the api settles at all is the api's part.)         *)
(***************************************************************************)
\* a fetchProducts completes in this step
C26_FetchCompletes == Len(pending') < Len(pending) /\ last'.op = "fetch"

C26_LoadingFollowsFetch ==
    /\ [](calls = 0 => loading)
    /\ [][ /\ (loading /\ ~loading') => C26_FetchCompletes
           /\ C26_FetchCompletes => ~loading'
           /\ (C26_FetchCompletes /\ ~last'.ok) => error' = "Failed to fetch products"
         ]_vars

\* a fetchProducts was rejected and loading is false
C26_Witness ==
    LastWas("fetch", FALSE) /\ ~loading /\ error = "Failed to fetch products"

(***************************************************************************)
(* C27: once error holds a message no later operation, successful or not,  *)
(* sets it back to null; from then on InventoryView never returns the      *)
(* product table: it returns the error, or 'Loading...' while loading is   *)
(* true.                                                                   *)
(***************************************************************************)
C27_ErrorIsNeverReset ==
    /\ [][error # NULL => error' # NULL]_vars
    /\ [](error # NULL =>
            /\ InventoryViewShows(loading, error) # "table"
            /\ ~loading => InventoryViewShows(loading, error) = "Error")

\* an operation succeeded after an earlier one had set the error
C27_Witness == last.ok /\ last.op # "none" /\ error # NULL /\ ~loading

(***************************************************************************)
(* C22: in the to-do with api, when toggleTask(id) has resolved the local  *)
(* task with that id is completed, whatever it was before, and every other *)
(* task is as in the list the call was issued from; the local list changes *)
(* only in a step in which a remote call completes, never when a call is   *)
(* issued.                                                                 *)
(***************************************************************************)
C22_ToggleResolved == taskLast.op = "toggle" /\ taskLast.outcome = "fulfilled"

C22_MarkedCompleted ==
    C22_ToggleResolved =>
        /\ Len(tasks) = Len(taskLast.snap)
        /\ \A i \in 1..Len(tasks) :
              IF taskLast.snap[i].id = taskLast.id
              THEN /\ tasks[i].completed
                   /\ tasks[i].id = taskLast.snap[i].id
                   /\ tasks[i].title = taskLast.snap[i].title
              ELSE tasks[i] = taskLast.snap[i]

C22_ToggleMarksCompleted ==
    /\ [](C22_MarkedCompleted)
    /\ [][tasks' # tasks => Len(taskPending') < Len(taskPending)]_vars

\* a toggleTask of a task that was already completed has resolved
C22_Witness ==
    /\ C22_ToggleResolved
    /\ \E i \in 1..Len(taskLast.snap) :
          /\ taskLast.snap[i].id = taskLast.id
          /\ taskLast.snap[i].completed
          /\ tasks[i].completed

(***************************************************************************)
(* C21.  TaskModel.toggleTask(id) of the in-memory to-do flips the         *)
(* completed flag of exactly the task with that id and leaves its id and   *)
(* title, every other task, the order of the list and nextId as they were; *)
(* the same toggle twice in a row restores the list; an id no task has     *)
(* changes nothing.                                                        *)
(***************************************************************************)
C21_ToggleStep ==
    /\ conInputs' = conInputs + 1
    /\ Head(conLast') = "toggle"
    /\ conOps' = conOps + 1

C21_ToggledId == ParseInt(conLast'[2])

C21_ToggleFlipsExactlyOne ==
    [][ C21_ToggleStep =>
          /\ conNextId' = conNextId
          /\ Len(conTasks') = Len(conTasks)
          /\ \A i \in 1..Len(conTasks) :
                /\ conTasks'[i].id = conTasks[i].id
                /\ conTasks'[i].title = conTasks[i].title
                /\ conTasks'[i].completed =
                      IF conTasks[i].id = C21_ToggledId
                      THEN ~conTasks[i].completed
                      ELSE conTasks[i].completed
          /\ conLast' = conLast => conTasks' = conPre.tasks ]_vars

\* the first of two tasks was toggled twice in a row and is as before, and
\* the other task never changed
C21_Witness ==
    /\ conLast = <<"toggle", "1">>
    /\ Len(conTasks) = 2
    /\ Len(conPre.tasks) = 2
    /\ conPre.tasks[1].completed
    /\ ~conTasks[1].completed
    /\ conTasks[2] = conPre.tasks[2]

(***************************************************************************)
(* C23.  In the in-memory TaskModel the k-th task of the list has id k,    *)
(* nextId is the number of tasks plus one, and a task is created with      *)
(* completed = false.                                                      *)
(***************************************************************************)
C23_IdsCountFromOne ==
    /\ [](/\ conNextId = Len(conTasks) + 1
          /\ \A k \in 1..Len(conTasks) : conTasks[k].id = k)
    /\ [][Len(conTasks') > Len(conTasks) =>
            /\ Len(conTasks') = Len(conTasks) + 1
            /\ ~conTasks'[Len(conTasks')].completed]_vars

\* three tasks were added, and the first was toggled
C23_Witness ==
    /\ Len(conTasks) = 3
    /\ conTasks[3].id = 3
    /\ conTasks[1].completed
    /\ conNextId = 4

(***************************************************************************)
(* C24.  A Count built with the default initial value: get() is never      *)
(* negative; decrement at 0 leaves 0, decrement above 0 lowers the value   *)
(* by one, increment raises it by one.                                     *)
(***************************************************************************)
C24_CountNeverNegative ==
    /\ [](count >= 0)
    /\ [][counterOps' = counterOps + 1 =>
            /\ counterLast' = "increment" => count' = count + 1
            /\ (counterLast' = "decrement" /\ count = 0) => count' = 0
            /\ (counterLast' = "decrement" /\ count > 0) => count' = count - 1
            /\ counterLast' = "get" => count' = count]_vars

\* decrement was called at 0
C24_Witness == counterLast = "decrement" /\ count = 0 /\ counterOps = 1

(***************************************************************************)
(* C25.  In the console examples the value last passed to the view's       *)
(* render is the state the model has now; the view is rendered once in     *)
(* every operation of the controller and in no other step.                 *)
(***************************************************************************)
C25_RenderShowsCurrentModel ==
    /\ [](/\ conRenders > 0 => conShown = <<conTasks>>
          /\ counterRenders > 0 => logged = <<count>>
          /\ conRenders = 0 => conTasks = <<>>
          /\ counterRenders = 0 => count = 0)
    /\ [][/\ conRenders' - conRenders = conOps' - conOps
          /\ counterRenders' - counterRenders = counterOps' - counterOps
          /\ conOps' - conOps \in {0, 1}
          /\ counterOps' - counterOps \in {0, 1}]_vars

\* the counter was rendered after an increment and the to-do after a toggle
C25_Witness ==
    /\ counterLast = "increment"
    /\ logged = <<1>>
    /\ Head(conLast) = "toggle"
    /\ conRenders = 2
    /\ conShown # <<conPre.tasks>>

(***************************************************************************)
(* C28.  simulateUserInput of the console to-do: 'add <title>' appends one *)
(* task whose title is the rest of the input, its words joined by single   *)
(* spaces; 'toggle <id>' toggles the task with the parsed id; any other    *)
(* command, and 'toggle' without argument, leaves the model as it was and  *)
(* renders nothing; after the inputs of the script the model holds exactly *)
(* two tasks, with ids 1 and 2, both completed.                            *)
(***************************************************************************)
C28_TitleOf(input) ==
    CASE input = <<"add", "Comprar", "leche">> -> "Comprar leche"
      [] input = <<"add", "Hacer", "la", "tarea">> -> "Hacer la tarea"
      [] OTHER -> ""

C28_HasArgument(input) == Len(input) >= 2 /\ input[2] # ""

C28_InputsActAsCommands ==
    /\ [][ conInputs' = conInputs + 1 =>
            LET input == conLast' IN
            IF Head(input) = "add"
            THEN /\ conTasks' = Append(conTasks,
                                       [id |-> conNextId,
                                        title |-> C28_TitleOf(input),
                                        completed |-> FALSE])
                 /\ conRenders' = conRenders + 1
            ELSE IF Head(input) = "toggle" /\ C28_HasArgument(input)
            THEN /\ Len(conTasks') = Len(conTasks)
                 /\ \A i \in 1..Len(conTasks) :
                       conTasks'[i] =
                          IF conTasks[i].id = ParseInt(input[2])
                          THEN [conTasks[i] EXCEPT !.completed = ~@]
                          ELSE conTasks[i]
                 /\ conNextId' = conNextId
                 /\ conRenders' = conRenders + 1
            ELSE /\ conTasks' = conTasks
                 /\ conNextId' = conNextId
                 /\ conRenders' = conRenders
                 /\ conShown' = conShown ]_vars
    /\ [](scriptPos = Len(Script) =>
            conTasks = << [id |-> 1, title |-> "Comprar leche", completed |-> TRUE],
                          [id |-> 2, title |-> "Hacer la tarea", completed |-> TRUE] >>)

\* the script has run to its end
C28_Witness ==
    /\ scriptPos = Len(Script)
    /\ conLast = <<"toggle", "2">>
    /\ conRenders = 4
    /\ Len(conTasks) = 2

(***************************************************************************)
(* C29.  In the context version a component that calls useBookController   *)
(* outside any BookControllerProvider obtains null; Main then shows an     *)
(* empty book list and Detail shows 'Book not found', before and after     *)
(* their effects.  Below a provider, when the effect of Detail has run,    *)
(* Detail shows 'Book not found' exactly when no book of its controller    *)
(* has the id of the route.                                                *)
(***************************************************************************)
C29_OutsideFallsBack ==
    /\ \A v \in Outside : outHeld[v] # <<>> => outHeld[v] = <<0>>
    /\ outHeld["MainOut"] # <<>> => MainShows(ctxBooks["MainOut"]) = <<>>
    /\ outHeld["DetailOut"] # <<>> =>
          DetailShows(ctxBook["DetailOut"]) = "Book not found"

C29_NoBookHasRouteId ==
    \A i \in 1..Len(BooksVia(ctxHeld["DetailA"])) :
        BooksVia(ctxHeld["DetailA"])[i].id # ToNumber(ctxRoute)

C29_DetailEffectRan ==
    /\ "DetailA" \in ctxEffect
    /\ "DetailA" \notin ctxEffect'
    /\ ctxHeld'["DetailA"] # 0

C29_NotFoundExactlyWhenAbsent ==
    /\ [](C29_OutsideFallsBack)
    /\ [][C29_DetailEffectRan =>
            (DetailShows(ctxBook'["DetailA"]) = "Book not found"
                <=> C29_NoBookHasRouteId)]_vars

\* Detail without a provider has run its effect; Detail below the provider
\* has run its effect for the id of a book that was added, and shows it
C29_Witness ==
    /\ outHeld["DetailOut"] = <<0>>
    /\ outHeld["MainOut"] = <<0>>
    /\ ctxEffect = {}
    /\ ctxHeld["DetailA"] # 0
    /\ ctxRoute = "4"
    /\ ctxBook["DetailA"] = <<PushedBook>>

====
